---- MODULE Spec2Model ----
(***************************************************************************)
(* Model of main() in main.py: the "Generate" handler of the LightX front  *)
(* end.  One run of the handler is a strictly sequential pipeline          *)
(*   validate input -> get_presigned_url -> upload_file_to_s3 ->           *)
(*   request_generation -> poll check_order_status -> render               *)
(* Every vendor call blocks; the vendor's answer is the only source of     *)
(* nondeterminism, so each call is one action whose response is drawn      *)
(* from a small set of response shapes.                                    *)
(***************************************************************************)
EXTENDS Integers, Sequences, FiniteSets, TLC

VARIABLES
    pc,                 \* position of the handler in main()
    api_key,            \* st.text_input value
    service_option,     \* st.radio value
    uploaded_file,      \* st.file_uploader value: None or [name, ext, size, decodable]
    content_type,       \* derived content type
    presigned_response, \* answer of get_presigned_url
    presigned_url,      \* body.uploadImage
    final_image_url,    \* body.imageUrl or body.maskedImageUrl
    upload_status,      \* HTTP status of the PUT
    gen_request,        \* JSON body and endpoint posted by request_generation
    gen_response,       \* answer of request_generation
    order_id,           \* body.orderId of the generation response
    poll_count,         \* loop counter of the poll loop
    output_url,         \* output of the 'active' status response
    polls,              \* the status responses received, in order
    netlog,             \* the vendor calls issued, in order
    warnings,           \* number of st.warning calls
    outcome,            \* which st.error / st.image ended the run
    rendered            \* argument of the final st.image

vars == << pc, api_key, service_option, uploaded_file, content_type,
           presigned_response, presigned_url, final_image_url, upload_status,
           gen_request, gen_response, order_id, poll_count, output_url, polls, netlog,
           warnings, outcome, rendered >>

----------------------------------------------------------------------------
(* Values *)

\* Python's None, for a dict.get() of an absent key or an unset variable.
None == "None"

\* Python truthiness of a str-or-None value: `not v` is true of None and "".
Truthy(v) == v # None /\ v # ""

\* Python's `a or b`.
PyOr(a, b) == IF Truthy(a) THEN a ELSE b

\* How far the file sizes tried lie around the size limit.
SizeMargin == 1

\* file_size > 2_097_152
MaxFileSize == 2097152

\* statusCode of a vendor response that succeeded
SuccessMarker == 2000

\* response.status_code == 200
HttpOK == 200

\* max_retries = 5
max_retries == 5

\* A response without a statusCode field: .get("statusCode") is None.
NoStatusCode == 0

\* requests raised, or response.json() could not decode the answer: the
\* exception leaves main() and ends the run.
NetError == [raised |-> TRUE]

\* A variable main() has not assigned yet.
Unset == [unset |-> TRUE]

\* st.file_uploader returned None.
NoFile == [present |-> FALSE]

----------------------------------------------------------------------------
(* Inputs of a run and answers of the vendor *)

ApiKeys == {"", "key"}

ServiceOptions == {"AI Avatar", "AI Cartoon"}

FileSizes == (MaxFileSize - SizeMargin) .. (MaxFileSize + SizeMargin)

\* decodable: whether PIL's Image.open accepts the bytes.
UploadedFiles ==
    {NoFile} \cup
    [present : {TRUE}, ext : {"png", "PNG", "jpeg"}, size : FileSizes,
     decodable : BOOLEAN]

StatusCodes == {NoStatusCode, SuccessMarker, 5040}

PresignedResponses ==
    {NetError} \cup
    [raised : {FALSE}, statusCode : StatusCodes,
     uploadImage : {None, "", "put-url"},
     imageUrl : {None, "image-url"},
     maskedImageUrl : {None, "", "masked-url"}]

HttpStatuses == {HttpOK, 201, 403, 500}

UploadResponses == {NetError} \cup [raised : {FALSE}, status_code : HttpStatuses]

GenResponses ==
    {NetError} \cup
    [raised : {FALSE}, statusCode : StatusCodes, orderId : {None, "", "order-1"}]

StatusResponses ==
    {NetError} \cup
    [raised : {FALSE}, statusCode : {SuccessMarker},
     status : {"pending"}, output : {None}] \cup
    [raised : {FALSE}, statusCode : {SuccessMarker},
     status : {"active"}, output : {None, "", "X"}] \cup
    [raised : {FALSE}, statusCode : {SuccessMarker},
     status : {None, "failed"}, output : {None}] \cup
    [raised : {FALSE}, statusCode : {5040},
     status : {"active"}, output : {"X"}] \cup
    [raised : {FALSE}, statusCode : {NoStatusCode},
     status : {"failed"}, output : {None}]

----------------------------------------------------------------------------
(* The decisions main() takes *)

\* Variant: the limit itself is rejected (>= for >).
TooLargeInclusive(file_size) == file_size >= MaxFileSize

\* if file_size > 2_097_152
TooLarge(file_size) == file_size > MaxFileSize

\* filename = uploaded_file.name.lower()
Lower(ext) == IF ext = "PNG" THEN "png" ELSE ext

\* "image/png" if filename.endswith(".png") else "image/jpeg"
ContentType(ext) == IF Lower(ext) = "png" THEN "image/png" ELSE "image/jpeg"

\* response.get("statusCode") != 2000 is false
ApiSucceeded(response) == response.statusCode = SuccessMarker

\* Variant: the maskedImageUrl fallback is dropped.
FinalImageUrlImageOnly(body) == body.imageUrl

\* Variant: the write URL is taken for the readable one.
FinalImageUrlWriteUrl(body) == PyOr(body.uploadImage, body.imageUrl)

\* body.get("imageUrl") or body.get("maskedImageUrl")
FinalImageUrl(body) == PyOr(body.imageUrl, body.maskedImageUrl)

\* not (not presigned_url or not final_image_url)
SlotUsable(p_url, f_url) == Truthy(p_url) /\ Truthy(f_url)

\* Variant: any 2xx answer counts (response.ok for status_code == 200).
upload_any_2xx(response) == response.status_code >= 200 /\ response.status_code < 300

\* upload_file_to_s3: return response.status_code == 200
upload_file_to_s3(response) == response.status_code = HttpOK

\* endpoint chosen from the service selection
Endpoint(option) == IF option = "AI Avatar" THEN "/v1/avatar" ELSE "/v1/cartoon"

\* request_generation: the JSON posted, and where
GenRequest(endpoint, image_url) ==
    [endpoint |-> endpoint, imageUrl |-> image_url, styleImageUrl |-> image_url]

\* Variant: `order_id is None` for `not order_id`.
OrderIdNotNone(id) == id # None

\* not (not order_id)
OrderIdUsable(id) == Truthy(id)

\* Variant: <= for <.
LoopContinuesOffByOne(count) == count <= max_retries

\* while poll_count < max_retries
LoopContinues(count) == count < max_retries

\* Variant: the success status is spelled "success".
PollVerdictWrongActive(response) ==
    IF ~ApiSucceeded(response) THEN "warn_continue"
    ELSE IF response.status = "success" THEN "break"
    ELSE IF response.status = "failed" THEN "return_failed"
    ELSE "continue"

\* Variant: the 'failed' branch is missing.
PollVerdictFailedIgnored(response) ==
    IF ~ApiSucceeded(response) THEN "warn_continue"
    ELSE IF response.status = "active" THEN "break"
    ELSE "continue"

\* Variant: the status is read before the success marker is checked.
PollVerdictStatusFirst(response) ==
    IF response.status = "active" THEN "break"
    ELSE IF response.status = "failed" THEN "return_failed"
    ELSE IF ~ApiSucceeded(response) THEN "warn_continue"
    ELSE "continue"

\* What one pass of the loop body does with a status response.
PollVerdict(response) ==
    IF ~ApiSucceeded(response) THEN "warn_continue"
    ELSE IF response.status = "active" THEN "break"
    ELSE IF response.status = "failed" THEN "return_failed"
    ELSE "continue"

\* if not output_url is false
HasOutput(url) == Truthy(url)

----------------------------------------------------------------------------
(* The handler *)

Init ==
    /\ pc = "input"
    /\ api_key = ""
    /\ service_option = "AI Avatar"
    /\ uploaded_file = NoFile
    /\ content_type = None
    /\ presigned_response = Unset
    /\ presigned_url = None
    /\ final_image_url = None
    /\ upload_status = Unset
    /\ gen_request = Unset
    /\ gen_response = Unset
    /\ order_id = None
    /\ poll_count = 0
    /\ output_url = None
    /\ polls = << >>
    /\ netlog = << >>
    /\ warnings = 0
    /\ outcome = "none"
    /\ rendered = None

\* requests.post / requests.put: one vendor call, and the URL it goes to
Call(name, url) == [call |-> name, to |-> url]

\* st.error(...); return  -- or an exception leaving main()
Stop(how) == pc' = "done" /\ outcome' = how

\* if st.button("Generate"): the checks of the input, up to the first vendor call
Generate(key, option, file) ==
    /\ pc = "input"
    /\ api_key' = key
    /\ service_option' = option
    /\ uploaded_file' = file
    /\ IF key = "" THEN
          Stop("error_no_api_key") /\ UNCHANGED content_type
       ELSE IF ~file.present THEN
          Stop("error_no_file") /\ UNCHANGED content_type
       ELSE IF TooLarge(file.size) THEN
          Stop("error_too_large") /\ UNCHANGED content_type
       ELSE IF ~file.decodable THEN
          Stop("exception") /\ content_type' = ContentType(file.ext)
       ELSE
          /\ pc' = "presign"
          /\ content_type' = ContentType(file.ext)
          /\ UNCHANGED outcome
    /\ UNCHANGED << presigned_response, presigned_url, final_image_url,
                    upload_status, gen_request, gen_response, order_id, poll_count,
                    output_url, polls, netlog, warnings, rendered >>

\* 1) get_presigned_url and the checks of its answer
RequestPresignedUrl(response) ==
    /\ pc = "presign"
    /\ netlog' = Append(netlog, Call("uploadImageUrl", "/v2/uploadImageUrl"))
    /\ presigned_response' = response
    /\ IF response.raised THEN
          Stop("exception") /\ UNCHANGED << presigned_url, final_image_url >>
       ELSE IF ~ApiSucceeded(response) THEN
          Stop("error_presign") /\ UNCHANGED << presigned_url, final_image_url >>
       ELSE
          /\ presigned_url' = response.uploadImage
          /\ final_image_url' = FinalImageUrl(response)
          /\ IF SlotUsable(presigned_url', final_image_url')
                THEN pc' = "upload" /\ UNCHANGED outcome
                ELSE Stop("error_missing_url")
    /\ UNCHANGED << api_key, service_option, uploaded_file, content_type,
                    upload_status, gen_request, gen_response, order_id, poll_count,
                    output_url, polls, warnings, rendered >>

\* 2) upload_file_to_s3(presigned_url, ...)
UploadImage(response) ==
    /\ pc = "upload"
    /\ netlog' = Append(netlog, Call("put", presigned_url))
    /\ upload_status' = response
    /\ IF response.raised THEN Stop("exception")
       ELSE IF ~upload_file_to_s3(response) THEN Stop("error_upload")
       ELSE pc' = "generate" /\ UNCHANGED outcome
    /\ UNCHANGED << api_key, service_option, uploaded_file, content_type,
                    presigned_response, presigned_url, final_image_url,
                    gen_request, gen_response, order_id, poll_count, output_url, polls,
                    warnings, rendered >>

\* 3) request_generation and the checks of its answer
RequestGeneration(response) ==
    /\ pc = "generate"
    /\ netlog' = Append(netlog, Call("generate", Endpoint(service_option)))
    /\ gen_request' = GenRequest(Endpoint(service_option), final_image_url)
    /\ gen_response' = response
    /\ IF response.raised THEN
          Stop("exception") /\ UNCHANGED order_id
       ELSE IF ~ApiSucceeded(response) THEN
          Stop("error_generation") /\ UNCHANGED order_id
       ELSE
          /\ order_id' = response.orderId
          /\ IF OrderIdUsable(order_id')
                THEN pc' = "poll" /\ UNCHANGED outcome
                ELSE Stop("error_no_order_id")
    /\ UNCHANGED << api_key, service_option, uploaded_file, content_type,
                    presigned_response, presigned_url, final_image_url,
                    upload_status, poll_count, output_url, polls, warnings,
                    rendered >>

\* 4) one pass of the poll loop: the loop test, the status query, its verdict
PollOrderStatus(response) ==
    /\ pc = "poll"
    /\ IF ~LoopContinues(poll_count) THEN
          /\ pc' = "render"
          /\ UNCHANGED << poll_count, polls, netlog, warnings, output_url,
                          outcome >>
       ELSE
          /\ poll_count' = poll_count + 1
          /\ netlog' = Append(netlog, Call("order-status", "/v1/order-status"))
          /\ polls' = Append(polls, response)
          /\ IF response.raised THEN
                Stop("exception") /\ UNCHANGED << warnings, output_url >>
             ELSE
                LET verdict == PollVerdict(response) IN
                /\ warnings' = IF verdict = "warn_continue"
                                  THEN warnings + 1 ELSE warnings
                /\ output_url' = IF verdict = "break"
                                    THEN response.output ELSE output_url
                /\ IF verdict = "return_failed" THEN Stop("error_job_failed")
                   ELSE IF verdict = "break"
                           THEN pc' = "render" /\ UNCHANGED outcome
                           ELSE pc' = "poll" /\ UNCHANGED outcome
    /\ UNCHANGED << api_key, service_option, uploaded_file, content_type,
                    presigned_response, presigned_url, final_image_url,
                    upload_status, gen_request, gen_response, order_id,
                    rendered >>

\* 5) after the loop: the time-out message or the output image
Render ==
    /\ pc = "render"
    /\ IF ~HasOutput(output_url)
          THEN Stop("error_timed_out") /\ UNCHANGED rendered
          ELSE Stop("rendered") /\ rendered' = output_url
    /\ UNCHANGED << api_key, service_option, uploaded_file, content_type,
                    presigned_response, presigned_url, final_image_url,
                    upload_status, gen_request, gen_response, order_id, poll_count,
                    output_url, polls, netlog, warnings >>

Next ==
    \/ \E key \in ApiKeys, option \in ServiceOptions, file \in UploadedFiles :
          Generate(key, option, file)
    \/ \E response \in PresignedResponses : RequestPresignedUrl(response)
    \/ \E response \in UploadResponses : UploadImage(response)
    \/ \E response \in GenResponses : RequestGeneration(response)
    \/ \E response \in StatusResponses : PollOrderStatus(response)
    \/ Render

Spec == Init /\ [][Next]_vars

----------------------------------------------------------------------------
(* Vocabulary of the properties *)

\* Number of vendor calls of one kind issued so far.
Issued(name) == Cardinality({i \in DOMAIN netlog : netlog[i].call = name})

StatusQueries == Issued("order-status")

\* A status response carrying the success marker and job status s.
Observed(r, s) == ~r.raised /\ r.statusCode = 2000 /\ r.status = s

\* A status response carrying the success marker and a non-terminal status.
PendingLike(r) ==
    ~r.raised /\ r.statusCode = 2000 /\ r.status \notin {"active", "failed"}

\* A status response without the success marker.
SoftFailure(r) == ~r.raised /\ r.statusCode # 2000

\* A field of a response that holds a usable (non-empty) value.
Present(v) == v # None /\ v # ""

\* The run ended with an error shown to the user.
EndedInError ==
    pc = "done" /\ outcome \notin {"none", "rendered"}

----------------------------------------------------------------------------
(* Properties *)

\* C1: in a finished run whose status queries all returned the success
\* marker with a status that is neither 'active' nor 'failed', exactly 5
\* status queries were issued, the outcome is the time-out and no output
\* image was rendered; no such run ever issues a sixth query.
C1_AllPendingTimesOut ==
    (Len(polls) > 0 /\ \A i \in DOMAIN polls : PendingLike(polls[i])) =>
        /\ StatusQueries = Len(polls)
        /\ StatusQueries <= 5
        /\ rendered = None
        /\ pc = "render" => StatusQueries = 5
        /\ pc = "done" => StatusQueries = 5 /\ outcome = "error_timed_out"

C1_Witness ==
    /\ pc = "done"
    /\ Len(polls) = 5
    /\ \A i \in DOMAIN polls : PendingLike(polls[i])
    /\ outcome = "error_timed_out"

\* C2: if queries 1..k-1 returned the success marker with a non-terminal
\* status and query k returned it with status 'active' and a non-empty
\* output X, then query k is the last one issued and the run ends by
\* rendering X.
C2_ActiveStopsPolling ==
    \A k \in DOMAIN polls :
        ( /\ \A j \in 1 .. (k - 1) : PendingLike(polls[j])
          /\ Observed(polls[k], "active")
          /\ Present(polls[k].output) ) =>
            /\ Len(polls) = k
            /\ StatusQueries = k
            /\ pc \in {"render", "done"}
            /\ pc = "done" =>
                  outcome = "rendered" /\ rendered = polls[k].output

C2_Witness ==
    /\ pc = "done"
    /\ Len(polls) = 3
    /\ PendingLike(polls[1]) /\ PendingLike(polls[2])
    /\ Observed(polls[3], "active")
    /\ outcome = "rendered"
    /\ rendered = "X"

\* C3: if query k is the first to return the success marker with status
\* 'failed' and no earlier query observed 'active', then query k is the last
\* one issued, the run ends at once with the job-failed error (not the
\* time-out) and nothing is rendered.
C3_FailedStopsPolling ==
    \A k \in DOMAIN polls :
        ( /\ Observed(polls[k], "failed")
          /\ \A j \in 1 .. (k - 1) :
                ~Observed(polls[j], "failed") /\ ~Observed(polls[j], "active") ) =>
            /\ Len(polls) = k
            /\ StatusQueries = k
            /\ pc = "done"
            /\ outcome = "error_job_failed"
            /\ rendered = None

C3_Witness ==
    /\ pc = "done"
    /\ Len(polls) = 2
    /\ SoftFailure(polls[1])
    /\ Observed(polls[2], "failed")
    /\ outcome = "error_job_failed"
    /\ poll_count < max_retries

\* C4: the time-out outcome is reached only after 5 status queries none of
\* which returned the success marker with status 'active' or 'failed'.
C4_TimeoutOnlyWhenExhausted ==
    outcome = "error_timed_out" =>
        /\ StatusQueries = 5
        /\ \A i \in DOMAIN polls :
              ~Observed(polls[i], "active") /\ ~Observed(polls[i], "failed")

\* C5 as stated: every run on a file longer than 2,097,152 bytes ends with
\* the size error and no vendor call; a file of exactly 2,097,152 bytes is
\* not rejected for its size.
C5_OversizeAlwaysSizeError ==
    (pc # "input" /\ uploaded_file.present) =>
        /\ uploaded_file.size > 2097152 =>
              pc = "done" /\ outcome = "error_too_large" /\ netlog = << >>
        /\ uploaded_file.size = 2097152 => outcome # "error_too_large"

\* C5, amended: every run on a file longer than 2,097,152 bytes ends at the
\* input checks with no vendor call issued: with the size error when an API
\* key was entered, with the missing-key error otherwise.  A file of exactly
\* 2,097,152 bytes is not rejected for its size and, with a key entered
\* and the image readable, goes on to the slot allocation.
C5_OversizeNoNetworkCalls ==
    (pc # "input" /\ uploaded_file.present) =>
        /\ uploaded_file.size > 2097152 =>
              /\ pc = "done"
              /\ netlog = << >>
              /\ outcome = IF api_key = "" THEN "error_no_api_key"
                                           ELSE "error_too_large"
        /\ uploaded_file.size = 2097152 =>
              /\ outcome # "error_too_large"
              /\ (api_key # "" /\ uploaded_file.decodable) =>
                    (pc = "presign" \/ Issued("uploadImageUrl") = 1)

C5_Witness ==
    /\ pc = "done"
    /\ api_key # ""
    /\ uploaded_file.present
    /\ uploaded_file.size = 2097153
    /\ outcome = "error_too_large"
    /\ netlog = << >>

\* The allocation response cannot be used: no success marker, or no write
\* URL, or neither readable URL.
SlotRefused(r) ==
    \/ r.statusCode # 2000
    \/ ~Present(r.uploadImage)
    \/ ~Present(r.imageUrl) /\ ~Present(r.maskedImageUrl)

\* C6: once the allocation call has answered, a response without the success
\* marker, or without the write URL, or with neither imageUrl nor
\* maskedImageUrl ends the run with a slot-allocation error and the
\* allocation call stays the only vendor call; any other response takes the
\* run to the byte upload.  (A field is present when it holds a non-empty
\* value.)
C6_SlotFailureBlocksUpload ==
    (presigned_response # Unset /\ ~presigned_response.raised) =>
        IF SlotRefused(presigned_response)
        THEN /\ pc = "done"
             /\ outcome \in {"error_presign", "error_missing_url"}
             /\ Len(netlog) = 1
             /\ Issued("put") = 0 /\ Issued("generate") = 0 /\ StatusQueries = 0
        ELSE \/ pc = "upload"
             \/ Len(netlog) >= 2 /\ netlog[2].call = "put"

C6_Witness ==
    /\ presigned_response # Unset
    /\ ~presigned_response.raised
    /\ presigned_response.statusCode = 2000
    /\ presigned_response.uploadImage = "put-url"
    /\ presigned_response.imageUrl = None
    /\ presigned_response.maskedImageUrl = None
    /\ outcome = "error_missing_url"

\* C7: an upload answered with an HTTP status other than 200 makes
\* upload_file_to_s3 return false and ends the run with the upload error;
\* neither the job submission nor a status query is issued.
C7_UploadFailureBlocksSubmission ==
    ( /\ upload_status # Unset
      /\ ~upload_status.raised
      /\ upload_status.status_code # 200 ) =>
        /\ ~upload_file_to_s3(upload_status)
        /\ pc = "done"
        /\ outcome = "error_upload"
        /\ Issued("generate") = 0
        /\ StatusQueries = 0

C7_Witness ==
    /\ upload_status # Unset
    /\ ~upload_status.raised
    /\ upload_status.status_code = 201
    /\ outcome = "error_upload"
    /\ Len(netlog) = 2

\* The job submission was made on a slot that was allocated and written:
\* third call of the run, after a successful allocation and a PUT to that
\* slot's write URL answered 200, carrying a readable URL of that slot.
SubmissionFollowsUpload ==
    \A i \in DOMAIN netlog :
        netlog[i].call = "generate" =>
            /\ i = 3
            /\ netlog[1].call = "uploadImageUrl"
            /\ presigned_response.statusCode = 2000
            /\ netlog[2].call = "put"
            /\ netlog[2].to = presigned_response.uploadImage
            /\ upload_status.status_code = 200
            /\ Present(gen_request.imageUrl)
            /\ gen_request.imageUrl \in {presigned_response.imageUrl,
                                         presigned_response.maskedImageUrl}
            /\ gen_request.styleImageUrl = gen_request.imageUrl

\* C8 as stated: every finished run issued the job submission exactly once,
\* and only on a slot that was allocated and written.
C8_ExactlyOneJobEveryRun ==
    /\ pc = "done" => Issued("generate") = 1
    /\ SubmissionFollowsUpload

\* C8, amended: the job submission is issued at most once per run, and
\* exactly once in every run whose byte upload returned success (so in every
\* run that reaches the status poller); it is issued only after the
\* allocation succeeded and the upload to the slot's write URL returned
\* success, and the image reference it carries is the readable URL of that
\* same slot.
C8_OneJobAfterUpload ==
    /\ Issued("generate") <= 1
    /\ (pc \in {"poll", "render"} \/ Len(polls) > 0) => Issued("generate") = 1
    /\ ( /\ pc = "done"
         /\ upload_status # Unset
         /\ ~upload_status.raised
         /\ upload_status.status_code = 200 ) => Issued("generate") = 1
    /\ SubmissionFollowsUpload

C8_Witness ==
    /\ pc = "poll"
    /\ Issued("generate") = 1
    /\ presigned_response.imageUrl = None
    /\ gen_request.imageUrl = "masked-url"
    /\ gen_request.endpoint = "/v1/cartoon"

\* A status query was just answered without the success marker.
SoftFailureStep ==
    /\ Len(polls') = Len(polls) + 1
    /\ SoftFailure(polls'[Len(polls')])

\* C9: a status response without the success marker uses up one attempt,
\* emits one warning, does not end the run and has neither its status nor
\* its output acted on, whatever they say: the run stays in the poll loop.
\* In every run at most 5 status queries are issued, and the warnings
\* emitted are exactly the responses without the success marker.
C9_SoftFailureCountedNotConsumed ==
    /\ [][ SoftFailureStep =>
              /\ poll_count' = poll_count + 1
              /\ warnings' = warnings + 1
              /\ pc' = "poll"
              /\ outcome' = "none"
              /\ output_url' = output_url
              /\ rendered' = None ]_vars
    /\ [](StatusQueries <= 5)
    /\ [](poll_count = StatusQueries)
    /\ [](warnings = Cardinality({i \in DOMAIN polls : SoftFailure(polls[i])}))

C9_Witness ==
    /\ pc = "done"
    /\ Len(polls) = 5
    /\ SoftFailure(polls[1]) /\ polls[1].status = "active"
    /\ SoftFailure(polls[2]) /\ polls[2].status = "failed"
    /\ PendingLike(polls[3])
    /\ SoftFailure(polls[5])
    /\ warnings >= 3
    /\ outcome = "error_timed_out"

\* One of the three calls before the poll loop has failed.
SetupFailed ==
    \/ presigned_response # Unset /\
          (presigned_response.raised \/ SlotRefused(presigned_response))
    \/ upload_status # Unset /\
          (upload_status.raised \/ upload_status.status_code # 200)
    \/ gen_response # Unset /\
          (\/ gen_response.raised
           \/ gen_response.statusCode # 2000
           \/ ~Present(gen_response.orderId))

\* C10: the slot allocation, the byte upload and the job submission are each
\* issued at most once in a run; when one of them fails (a submission
\* answered without the success marker or with an empty order identifier
\* included) the run ends with an error and no status query is issued.
C10_NoRetryOutsidePollLoop ==
    /\ Issued("uploadImageUrl") <= 1
    /\ Issued("put") <= 1
    /\ Issued("generate") <= 1
    /\ SetupFailed => EndedInError /\ StatusQueries = 0 /\ rendered = None

C10_Witness ==
    /\ gen_response # Unset
    /\ ~gen_response.raised
    /\ gen_response.statusCode = 2000
    /\ gen_response.orderId = ""
    /\ outcome = "error_no_order_id"
    /\ Len(netlog) = 3

====
